---- MODULE Spec2Model ----
(***************************************************************************)
(* The request executor of cordiverse/http: one call of HTTP[Service.invoke]*)
(* with its AbortController, its timeout timer, its owning scope and the   *)
(* transport it awaits.  The repository holds several implementations of   *)
(* the executor; impl says which one the modelled client runs:             *)
(*   "undios"  src/unnamed/part_004               lines 315-420            *)
(*   "coreA"   src/packages/core/src/index.ts     lines 269-363            *)
(*   "coreB"   src/packages/core/src/index.ts     lines 756-853            *)
(*   "httpPkg" src/packages/http/src/index.ts     lines 156-248            *)
(* An async function runs atomically between two awaits (one event-loop    *)
(* task), so every action below is one such stretch of code.               *)
(* The config merger (resolveConfig) is a pure function of the layers it   *)
(* is given; MergeSpec applies it to drawn layers, apart from the calls.   *)
(***************************************************************************)
EXTENDS Integers, FiniteSets, Sequences, TLC

VARIABLES
  impl,      \* which implementation of the executor the client runs
  scope,     \* the owning scope (ctx): "active" or "disposed"
  signal,    \* the caller-supplied external AbortSignal (config.signal)
  decoders,  \* this._decoders: the response-type tags with a decoder
  proxies,   \* this._proxies: the URL schemes with a dispatcher factory
  call,      \* the state of the one call under study
  merge,     \* one resolution of a call's config from its layers
  registry,  \* what this._decoders and this._proxies hold, and for whom
  url,       \* one resolution of a call's URL
  sockets,   \* the sockets ws has returned
  timers,    \* the registrations of ctx.setTimeout, setInterval and sleep
  front      \* one call through a verb shortcut or file

vars ==
  <<impl, scope, signal, decoders, proxies, call, merge, registry, url,
    sockets, timers, front>>

Impls == {"undios", "coreA", "coreB", "httpPkg"}

\* The implementations that register the timeout through ctx.effect and
\* dispose it from the abort listener and from the finally block.
EffectImpls == {"undios", "coreA", "coreB"}

\* The implementations with a proxy registry (this._proxies).
ProxyImpls == {"undios", "coreB"}

(***************************************************************************)
(* Errors.  http is the kHTTPError tag HTTPError.is tests; cause is the    *)
(* msg of the wrapped failure; resp says a response is attached.           *)
(***************************************************************************)
Err(msg, code, http, cause, resp) ==
  [msg |-> msg, code |-> code, http |-> http, cause |-> cause, resp |-> resp]

NoErr == Err("none", "none", FALSE, "none", FALSE)

\* new HTTPError('request timeout', 'ETIMEDOUT' | 'TIMEOUT'); the oldest
\* implementation aborts with the bare string 'timeout'.
TimeoutError ==
  CASE impl = "undios"  -> Err("request timeout", "ETIMEDOUT", TRUE, "none", FALSE)
    [] impl = "coreA"   -> Err("request timeout", "ETIMEDOUT", TRUE, "none", FALSE)
    [] impl = "coreB"   -> Err("request timeout", "TIMEOUT", TRUE, "none", FALSE)
    [] impl = "httpPkg" -> Err("timeout", "none", FALSE, "none", FALSE)

\* The reason scope disposal aborts with, where it aborts at all.
ContextDisposedError ==
  CASE impl = "coreA"   -> Err("context disposed", "ETIMEDOUT", TRUE, "none", FALSE)
    [] impl = "httpPkg" -> Err("context disposed", "none", FALSE, "none", FALSE)
    [] OTHER            -> NoErr

\* The reason the caller aborts its own signal with (any value of theirs).
UserAbortReason == Err("user abort", "none", FALSE, "none", FALSE)

\* A failure of the transport itself (network, DNS, TLS).
NetworkError == Err("network error", "none", FALSE, "none", FALSE)

\* A uniform error raised inside the transport chain ('http/fetch' listener).
TransportHTTPError == Err("transport http error", "none", TRUE, "none", FALSE)

\* The error codes that mark a timeout.
TimeoutCodes == {"ETIMEDOUT", "TIMEOUT"}

HTTPErrorIs(e) == e.http

(***************************************************************************)
(* The per-call configuration the caller passes.                           *)
(***************************************************************************)
\* http(url, cfg); one of http.get, delete, patch, post, put; http.head
Forms == {"bare", "verb", "head"}
ProxySchemes == {"none", "http", "socks5"}     \* scheme of config.proxyAgent
ResponseTypes == {"none", "arraybuffer", "xml", "fn"} \* unset, tag, function
\* The caller's validateStatus: unset, status => status < 400, () => true
Validators == {"none", "lt400", "any"}
Statuses == {200, 302, 404}
\* The response's Content-Type header; "missing" when it has none.
ContentTypes ==
  {"application/json; charset=utf-8", "text/plain", "image/png", "missing"}

\* The URL argument: "valid" parses against config.baseURL, "invalid" does
\* not (new URL(url, config.baseURL) throws).
URLs == {"valid", "invalid"}

Configs ==
  [form : Forms, timeout : BOOLEAN, signal : BOOLEAN, proxy : ProxySchemes,
   responseType : ResponseTypes, validateStatus : Validators, url : URLs]

NoConfig ==
  [form |-> "bare", timeout |-> FALSE, signal |-> FALSE, proxy |-> "none",
   responseType |-> "none", validateStatus |-> "none", url |-> "valid"]

NoController == [aborted |-> FALSE, reason |-> NoErr, by |-> "none"]

NoResponse == [status |-> 0, type |-> "none", data |-> "null"]

IdleCall ==
  [pc        |-> "idle",
   cfg       |-> NoConfig,
   ctl       |-> NoController,  \* the internal AbortController's signal
   timer     |-> "none",        \* "none", "pending", "fired" or "cleared"
   effect    |-> FALSE,         \* a teardown was registered for the call
   disposed  |-> FALSE,         \* the disposer has run (left the scope)
   teardowns |-> 0,             \* runs of the teardown callback
   aborts    |-> 0,             \* abort() calls that took effect
   attempts  |-> <<>>,          \* every abort() call, by its source
   first     |-> "none",        \* the first cancellation event in flight
   listening |-> FALSE,         \* the call's listener is on config.signal
   fetches   |-> 0,             \* transport invocations
   cause     |-> NoErr,         \* what the transport rejected with
   known     |-> FALSE,         \* responseType had a decoder at the start
   reads     |-> <<>>,          \* the decoders invoked on the raw response
   err       |-> NoErr,         \* what the call rejected with
   resp      |-> NoResponse]    \* the Response handed back or attached

Finished == {"resolved", "rejected"}

(***************************************************************************)
(* The AbortController, the timer and the disposer ctx.effect returns.     *)
(***************************************************************************)
\* clearTimeout(timer): only a pending timer is affected.
ClearTimeout(c) ==
  IF c.timer = "pending" THEN [c EXCEPT !.timer = "cleared"] ELSE c

RECURSIVE Abort(_, _, _)
RECURSIVE Dispose(_, _)

\* The callback the effect returns: (done) => { clearTimeout(timer); ... }.
\* Only coreA goes on to abort the controller, unless called with done.
Teardown(c, done) ==
  LET c1 == [ClearTimeout(c) EXCEPT !.teardowns = @ + 1]
  IN  IF impl = "coreA" /\ ~done
        THEN Abort(c1, ContextDisposedError, "dispose")
        ELSE c1

\* The disposer ctx.effect hands back: it leaves the scope's disposables and
\* runs the callback, once; a later invocation returns at once.  The guard
\* is cordis' (Context.effect), whose code the repository imports.
Dispose(c, done) ==
  IF c.disposed THEN c ELSE Teardown([c EXCEPT !.disposed = TRUE], done)

\* controller.signal.addEventListener('abort', () => dispose())
AbortListeners(c) ==
  IF impl \in EffectImpls /\ c.effect THEN Dispose(c, FALSE) ELSE c

\* controller.abort(reason): a no-op on an aborted controller, else the
\* reason is set and the abort listeners run.  by and attempts record the
\* source of the call for the properties; the code does not read them.
Abort(c, reason, by) ==
  LET c0 == [c EXCEPT !.attempts = Append(@, by)]
  IN  IF c.ctl.aborted
        THEN c0
        ELSE AbortListeners([c0 EXCEPT
               !.ctl = [aborted |-> TRUE, reason |-> reason, by |-> by],
               !.aborts = @ + 1])

\* config.signal as it would be if aborting the controller aborted it too.
SignalFollowsController(sig, c) ==
  IF c.ctl.aborted /\ ~sig.aborted
    THEN [aborted |-> TRUE, reason |-> c.ctl.reason]
    ELSE sig

\* config.signal after a step of the call: the call reads its aborted flag
\* and its reason and adds a listener; it aborts only its own controller.
SignalAfter(sig, c) == sig

\* Finally as it would be with the finally block left out.
FinallyOmitted(c) == c

\* finally { dispose() }   (coreA: dispose(true); httpPkg has no finally)
Finally(c) ==
  CASE impl = "coreA"   -> Dispose(c, TRUE)
    [] impl = "undios"  -> Dispose(c, FALSE)
    [] impl = "coreB"   -> Dispose(c, FALSE)
    [] impl = "httpPkg" -> c

\* Throw as it would be with the transport called again after a failure.
ThrowRetriesOnce(c, e) ==
  IF c.pc = "awaiting" /\ c.fetches < 2
    THEN [c EXCEPT !.fetches = @ + 1]
    ELSE [Finally(c) EXCEPT !.pc = "rejected", !.err = e]

\* Throw as it would be outside the try block: no finally runs.
ThrowSkipsFinally(c, e) == [c EXCEPT !.pc = "rejected", !.err = e]

\* The call throws e: the finally block runs and the promise rejects.
Throw(c, e) == [Finally(c) EXCEPT !.pc = "rejected", !.err = e]

(***************************************************************************)
(* resolveConfig: the config of a call merged from the instance config     *)
(* (this.config), the http configs of the caller's intercept chain and the *)
(* config passed to the call.  A layer is told by its tag, and every key a *)
(* layer sets carries the layer's tag as its value, so the resolved value  *)
(* of a key names the layer it came from.                                  *)
(***************************************************************************)
MaxChain == 2                      \* longest intercept chain drawn

\* The keys of config.headers: two keys of a plain object, and one header.
HeaderNames == {"Content-Type", "content-type"}
FieldNames == {"timeout"}          \* the keys of a config other than headers
ChainTags == <<"C1", "C2", "C3", "C4">>   \* intercept layers, innermost first

\* The config object of layer tag that sets the headers hs and the fields fs.
Layer(tag, hs, fs) ==
  [tag     |-> tag,
   headers |-> [h \in HeaderNames |-> IF h \in hs THEN tag ELSE "unset"],
   fields  |-> [f \in FieldNames |-> IF f \in fs THEN tag ELSE "unset"]]

Layers(tag) == {Layer(tag, hs, fs) : hs \in SUBSET HeaderNames,
                                     fs \in SUBSET FieldNames}

\* The chains ctx[Context.intercept] can be: chain[1] is the innermost
\* scope's config, the last one the outermost ancestor's.
RECURSIVE Chains(_)
Chains(n) ==
  IF n = 0
    THEN {<<>>}
    ELSE {Append(c, l) : c \in Chains(n - 1), l \in Layers(ChainTags[n])}

AllChains == UNION {Chains(n) : n \in 0..MaxChain}

\* { ...a, ...b }: the keys of b replace those of a.
Spread(a, b) == [k \in DOMAIN a |-> IF b[k] # "unset" THEN b[k] ELSE a[k]]

\* MergeConfig with the spreads in the other order: the target's keys win.
MergeConfigTargetWins(target, source, config) ==
  [tag     |-> target.tag,
   headers |-> Spread(source.headers, target.headers),
   fields  |-> Spread(source.fields, target.fields)]

\* MergeConfig without the nested merge of headers: { ...target, ...source }.
MergeConfigShallow(target, source, config) ==
  [tag     |-> target.tag,
   headers |-> IF \E h \in HeaderNames : source.headers[h] # "unset"
                 THEN source.headers
                 ELSE target.headers,
   fields  |-> Spread(target.fields, source.fields)]

\* HTTP.mergeConfig(target, source) of the class-based clients, and the
\* inner merge(init) of httpPkg, which spreads the instance config again
\* where the layer's own keys were meant.
MergeConfig(target, source, config) ==
  IF impl = "httpPkg"
    THEN [tag     |-> target.tag,
          headers |-> Spread(target.headers, source.headers),
          fields  |-> Spread(target.fields, config.fields)]
    ELSE [tag     |-> target.tag,
          headers |-> Spread(target.headers, source.headers),
          fields  |-> Spread(target.fields, source.fields)]

\* The layer has a headers object of its own.
HasHeaders(layer) == \E h \in HeaderNames : layer.headers[h] # "unset"

\* let result = { headers: {}, ...this.config }: a shallow copy, so that
\* result.headers is this.config.headers itself when the instance config
\* has one (alias).
StartResolve(m) ==
  [m EXCEPT !.result = m.config, !.alias = HasHeaders(m.config)]

\* MergeStep as it would be if the merge wrote into its target
\* (Object.assign(target.headers, source.headers)) instead of building a
\* new object: the write lands in every object the target's headers is.
MergeStepInPlace(m, source) ==
  LET hs == Spread(m.result.headers, source.headers)
  IN  [m EXCEPT !.result.headers = hs,
                !.result.fields = Spread(m.result.fields, source.fields),
                !.config.headers = IF m.alias THEN hs ELSE @]

\* result = HTTP.mergeConfig(result, source): the result is a new object
\* with a new headers object; target and source are only read.
MergeStep(m, source) ==
  [m EXCEPT !.result = MergeConfig(m.result, source, m.config),
            !.alias = FALSE]

\* while (intercept) { result = merge(result, intercept.http); intercept =
\* Object.getPrototypeOf(intercept) }
RECURSIVE WalkChain(_, _)
WalkChain(m, chain) ==
  IF chain = <<>>
    THEN m
    ELSE WalkChain(MergeStep(m, Head(chain)), Tail(chain))

\* resolveConfig(init): the copy of the instance config, the chain walk,
\* and last the merge of init.
ResolveConfig(m) ==
  MergeStep(WalkChain(StartResolve(m), m.chain), m.init)

\* An 'http/config' observer sets a header on the object it is handed:
\* result.headers[h] = ...  The write lands in the headers object, which
\* is the instance config's own when result.headers is an alias of it.
ObserverWrite(m, h) ==
  [m EXCEPT !.result.headers[h] = "E",
            !.config.headers[h] = IF m.alias THEN "E" ELSE @]

\* resolveConfig(init) with an observer of 'http/config':
\* this.ctx.emit(this, 'http/config', result) comes between the copy of
\* the instance config and the chain walk.
ResolveConfigObserved(m, h) ==
  MergeStep(WalkChain(ObserverWrite(StartResolve(m), h), m.chain), m.init)

\* Extend as it would be if it assigned the overrides to this.config
\* (Object.assign) and handed the same object to the new client.
ExtendAssignsParent(m, over) ==
  LET merged == [m.config EXCEPT
                   !.headers = Spread(m.config.headers, over.headers),
                   !.fields = Spread(m.config.fields, over.fields)]
  IN  [m EXCEPT !.child = merged, !.over = over, !.config = merged]

\* extend(config): this[Service.extend]({ config: HTTP.mergeConfig(
\* this.config, config) }); the target of the merge is this.config itself.
Extend(m, over) ==
  LET e == MergeStep([m EXCEPT !.result = m.config, !.alias = TRUE], over)
  IN  [m EXCEPT !.child = e.result, !.over = over, !.config = e.config]

\* The implementations whose resolveConfig is in the repository (coreB hands
\* it to Service.resolveConfig).
MergeImpls == {"undios", "coreA", "httpPkg"}

NoLayer == Layer("none", {}, {})

(***************************************************************************)
(* The RequestInit the executor builds from the effective config.          *)
(***************************************************************************)
\* config.data: absent, null, a string, a plain object (or array), or one
\* of the body types fetch takes as they are.
RawTypes == {"URLSearchParams", "ArrayBuffer", "view", "Blob", "FormData"}
DataKinds == {"absent", "null", "string", "object"} \cup RawTypes

\* config.data && typeof config.data === 'object'
IsObject(data) == data \notin {"absent", "null", "string"}

\* encodeRequest with the instanceof tests left out.
EncodeRequestAlwaysJSON(data) == <<"application/json", "json">>

\* encodeRequest(data): [type, body]; body "same" is data itself, "json"
\* is JSON.stringify(data).
EncodeRequest(data) ==
  IF data \in RawTypes
    THEN <<"null", "same">>
    ELSE <<"application/json", "json">>

\* A header name as a Headers object keeps it.
Lower(name) == IF name = "Content-Type" THEN "content-type" ELSE name

\* new Headers(config.headers): a copy, keyed by the lower-cased names.
NewHeaders(headers) ==
  [n \in {Lower(h) : h \in DOMAIN headers} |->
     IF \E h \in DOMAIN headers : Lower(h) = n /\ headers[h] # "unset"
       THEN "config"
       ELSE "unset"]

\* headers.has(name): the name is compared without regard to case.
HeadersHas(headers, name) ==
  Lower(name) \in DOMAIN headers /\ headers[Lower(name)] # "unset"

NoRequest == [data |-> "none", body |-> "none", headers |-> <<>>]

\* const headers = new Headers(config.headers); init = { ..., headers,
\* body: config.data }; if data is an object, init.body is the encoded
\* body and the type is appended unless a content-type is there.  httpPkg
\* passes config.data and config.headers as they are.
RequestInit(config, data) ==
  LET headers == NewHeaders(config.headers)
      enc     == EncodeRequest(data)
  IN  IF impl # "httpPkg" /\ IsObject(data)
        THEN [data    |-> data,
              body    |-> enc[2],
              headers |-> IF enc[1] # "null" /\ ~HeadersHas(headers, "content-type")
                            THEN [headers EXCEPT !["content-type"] = enc[1]]
                            ELSE headers]
        ELSE [data |-> data, body |-> "same", headers |-> headers]

NoMerge ==
  [pc     |-> "off",
   config |-> NoLayer,   \* this.config
   chain  |-> <<>>,      \* the http configs of the intercept chain
   init   |-> NoLayer,   \* the config passed to the call
   result |-> NoLayer,   \* the effective config
   alias  |-> FALSE,     \* result.headers is this.config.headers
   over   |-> NoLayer,   \* the config passed to extend
   child  |-> NoLayer,   \* the config of the client extend returned
   request |-> NoRequest] \* the RequestInit built for the transport

(***************************************************************************)
(* The registries: decoder(type, fn) and proxy(names, factory) are effects *)
(* of the registering scope; retracting one (its disposer, or the disposal *)
(* of that scope) runs the callback the effect returned.  A registration   *)
(* is told by its number, which stands for the function it registered.     *)
(***************************************************************************)
MaxRegistrations == 3              \* registrations made after construction

RegTags == {"json", "xml"}         \* a built-in tag and a new one
RegSchemes == {"http", "https", "socks5"}
ProxyNames == {{"socks5"}, {"http", "socks5"}}   \* name lists passed to proxy

Registration(kind, keys, id) == [kind |-> kind, keys |-> keys, id |-> id]

\* No registration under study.
NoRegistry == [decoders |-> <<>>, proxies |-> <<>>, live |-> <<>>, next |-> 0]

\* The registries after the constructor: this.decoder('json', ...) and
\* this.proxy(['http', 'https'], ...); 0 is a key the object does not have.
Constructed ==
  [decoders |-> [t \in RegTags |-> IF t = "json" THEN 1 ELSE 0],
   proxies  |-> [k \in RegSchemes |-> IF k \in {"http", "https"} THEN 2 ELSE 0],
   live     |-> <<Registration("decoder", {"json"}, 1),
                  Registration("proxy", {"http", "https"}, 2)>>,
   next     |-> 3]

\* The effect: this._decoders[type] = decoder, or for (const key of name)
\* this._proxies[key] = factory.
Register(r, kind, keys) ==
  [r EXCEPT
     !.decoders = [t \in DOMAIN @ |->
                     IF kind = "decoder" /\ t \in keys THEN r.next ELSE @[t]],
     !.proxies = [k \in DOMAIN @ |->
                    IF kind = "proxy" /\ k \in keys THEN r.next ELSE @[k]],
     !.live = Append(@, Registration(kind, keys, r.next)),
     !.next = @ + 1]

RemoveAt(seq, i) == SubSeq(seq, 1, i - 1) \o SubSeq(seq, i + 1, Len(seq))

\* The callback the effect returned: delete this._decoders[type], or for
\* (const key of name) delete this._proxies[key]; the registration is gone
\* from the scope.
Retract(r, i) ==
  LET reg == r.live[i]
  IN  [r EXCEPT
         !.decoders = [t \in DOMAIN @ |->
                         IF reg.kind = "decoder" /\ t \in reg.keys THEN 0 ELSE @[t]],
         !.proxies = [k \in DOMAIN @ |->
                        IF reg.kind = "proxy" /\ k \in reg.keys THEN 0 ELSE @[k]],
         !.live = RemoveAt(r.live, i)]

\* The keys this._decoders and this._proxies have.
DecoderKeys(r) == {t \in DOMAIN r.decoders : r.decoders[t] # 0}
ProxyKeys(r) == {k \in DOMAIN r.proxies : r.proxies[k] # 0}

(***************************************************************************)
(* resolveURL: the query of the parsed URL, then one parameter per entry   *)
(* of config.params.                                                       *)
(***************************************************************************)
MaxParams == 2                     \* most entries of config.params drawn

ParamKeys == {"a", "b", "1"}       \* "1" is an integer-like key
ParamValues == {"null", "undefined", "v"}

\* config.params as sequences of <<key, value>> in insertion order, the
\* keys distinct.
RECURSIVE ParamsOfLen(_)
ParamsOfLen(n) ==
  IF n = 0
    THEN {<<>>}
    ELSE {Append(ps, <<k, v>>) :
            ps \in ParamsOfLen(n - 1), k \in ParamKeys, v \in ParamValues}

AllParams ==
  {ps \in UNION {ParamsOfLen(n) : n \in 0..MaxParams} :
     \A i, j \in DOMAIN ps : i # j => ps[i][1] # ps[j][1]}

IsIntegerKey(entry) == entry[1] = "1"
IsNamedKey(entry) == entry[1] # "1"

\* Object.entries(params): the integer-like keys first (ascending; there
\* is one here), then the other keys in insertion order.
Entries(params) ==
  SelectSeq(params, IsIntegerKey) \o SelectSeq(params, IsNamedKey)

\* isNullable(value)
IsNullable(value) == value \in {"null", "undefined"}

\* if (isNullable(value)) continue -- part_001's resolveURL has no such
\* line.
SkipsNullable(value) == impl # "part001" /\ IsNullable(value)

\* for (const [key, value] of Object.entries(config.params ?? {})) {
\*   if (isNullable(value)) continue; url.searchParams.append(key, value) }
\* append puts the value's string form after what the query already has.
RECURSIVE AppendParams(_, _)
AppendParams(query, entries) ==
  IF entries = <<>>
    THEN query
    ELSE AppendParams(
           IF SkipsNullable(Head(entries)[2])
             THEN query
             ELSE Append(query, Head(entries)),
           Tail(entries))

ResolveURL(query, params) == AppendParams(query, Entries(params))

\* The implementations of resolveURL that read config.params: part_004:289
\* and core/index.ts (235, 730) alike, and the older one at part_001:322.
URLImpls == {"undios", "coreA", "coreB", "part001"}

Queries == {<<>>, <<<<"q", "v">>>>}   \* the query the URL argument came with

\* No URL resolution under study.
NoURL == [pc |-> "off", query |-> <<>>, params |-> <<>>, out |-> <<>>]

(***************************************************************************)
(* Init: a constructed client in a live scope, no call made yet.           *)
(***************************************************************************)
\* The decoders and proxy factories the constructor registers.  coreB adds
\* 'headers'; httpPkg has no registry, coreA and httpPkg no proxy factories.
(***************************************************************************)
(* ws: the socket it returns is tied to the calling scope by a hook that   *)
(* closes it when the scope is disposed.                                   *)
(***************************************************************************)
MaxSockets == 3                    \* sockets opened in one behaviour

NormalClosure == 1000              \* socket.close(1000, 'context disposed')
GoingAway == 1001                  \* socket.close(1001, 'context disposed')

\* The implementations whose hook is a ctx.on('dispose') listener that the
\* socket's close listener removes; coreB's is a ctx.effect, httpPkg's a
\* listener nothing removes.
ListenerImpls == {"undios", "coreA"}

\* A socket as new WebSocket(url, init) returns it, with its hook set.
NewSocket ==
  [state       |-> "open",   \* "open", "closing" or "closed"
   hook        |-> "set",    \* "set", "removed" or "ran"
   cleanups    |-> 0,        \* socket.close(..., 'context disposed') calls
   code        |-> 0,        \* the code of the last such call
   closedWhile |-> "never"]  \* the scope's state at the close event

\* socket.close(code, 'context disposed'): an open socket starts closing,
\* any other is left as it is.
CloseDisposed(s) ==
  [s EXCEPT !.cleanups = @ + 1,
            !.code = IF impl = "httpPkg" THEN GoingAway ELSE NormalClosure,
            !.state = IF @ = "open" THEN "closing" ELSE @]

\* The callback of the hook runs: it is a listener still set, or the
\* effect's callback, which runs at the first disposal only.
RunHook(s) ==
  IF s.hook = "set" THEN [CloseDisposed(s) EXCEPT !.hook = "ran"] ELSE s

\* The hook as the scope's disposal finds it: httpPkg's listener is still
\* there whatever happened; it runs with the others.
HookOnDispose(s) ==
  IF impl = "httpPkg" THEN CloseDisposed(s) ELSE RunHook(s)

\* socket.addEventListener('close', () => { dispose() }): the listener is
\* removed (ctx.on), or the effect is disposed, which runs its callback
\* (ctx.effect); httpPkg adds no such listener.
OnSocketClose(s) ==
  CASE impl \in ListenerImpls ->
         [s EXCEPT !.hook = IF @ = "set" THEN "removed" ELSE @]
    [] impl = "coreB" -> RunHook(s)
    [] OTHER -> s

(***************************************************************************)
(* The timer service: setTimeout, setInterval and sleep register their     *)
(* timers as effects of the calling scope.  Time is counted in units; a    *)
(* timer that falls due fires within the unit that makes it due.           *)
(***************************************************************************)
MaxTimers == 2                     \* registrations in one behaviour
MaxTime == 3                       \* units of time that pass

TimerKinds == {"timeout", "interval", "sleep"}
Delays == {1, 2}                   \* the delay argument, in units

\* A registration as setTimeout, setInterval or sleep leaves it.
NewTimer(kind, delay) ==
  [kind      |-> kind,
   delay     |-> delay,
   elapsed   |-> 0,          \* units since the registration
   timer     |-> "pending",  \* the runtime's timer: pending, fired, cleared
   effect    |-> "active",   \* the ctx.effect: "active" or "disposed"
   stoppedAt |-> -1,         \* elapsed when the effect was disposed
   calls     |-> 0,          \* invocations of the callback argument
   promise   |-> IF kind = "sleep" THEN "pending" ELSE "none",
   listener  |-> IF kind = "sleep" THEN "set" ELSE "none"]  \* dispose2

\* The effect's disposer as it would be if its callback cleared nothing.
DisposeEffectKeepsTimer(t) ==
  IF t.effect = "active"
    THEN [t EXCEPT !.effect = "disposed", !.stoppedAt = t.elapsed]
    ELSE t

\* The disposer of the effect: () => clearTimeout(timer), or () =>
\* clearInterval(timer); it leaves the scope and runs once.
DisposeEffect(t) ==
  IF t.effect = "active"
    THEN [t EXCEPT !.effect = "disposed", !.stoppedAt = t.elapsed,
                   !.timer = IF @ = "pending" THEN "cleared" ELSE @]
    ELSE t

\* resolve() or reject(): a settled promise stays as it is.
Settle(t, outcome) ==
  [t EXCEPT !.promise = IF @ = "pending" THEN outcome ELSE @]

\* dispose2(): the 'dispose' listener of sleep is removed.
RemoveListener(t) == [t EXCEPT !.listener = IF @ = "set" THEN "removed" ELSE @]

\* The callback sleep hands to setTimeout, as it would be without its
\* dispose2() call.
SleepElapsedKeepsListener(t) == Settle(DisposeEffect(t), "resolved")

\* The callback sleep hands to setTimeout:
\* dispose1(); dispose2(); resolve()
SleepElapsed(t) == Settle(RemoveListener(DisposeEffect(t)), "resolved")

\* The 'dispose' listener of sleep:
\* dispose1(); dispose2(); reject(new Error('Context has been disposed'))
SleepDisposed(t) == Settle(RemoveListener(DisposeEffect(t)), "rejected")

\* The timeout's timer as it would be if it stayed pending after firing.
TimeoutFiresRearmed(t) ==
  LET u == IF t.kind = "sleep" THEN SleepElapsed(t) ELSE t
  IN  [u EXCEPT !.calls = @ + 1, !.effect = "disposed",
                !.stoppedAt = IF t.effect = "active" THEN t.elapsed ELSE @]

\* The runtime's timeout fires: dispose(); callback().  The callback is
\* the caller's, or for sleep the one above.
TimeoutFires(t) ==
  LET u == DisposeEffect([t EXCEPT !.timer = "fired"])
      v == IF t.kind = "sleep" THEN SleepElapsed(u) ELSE u
  IN  [v EXCEPT !.calls = @ + 1]

\* The runtime's interval fires: callback().
IntervalFires(t) == [t EXCEPT !.calls = @ + 1]

\* One unit of time passes for a registration.
Elapse(t) ==
  LET u == [t EXCEPT !.elapsed = @ + 1]
  IN  CASE u.timer = "pending" /\ u.kind # "interval" /\ u.elapsed >= u.delay ->
             TimeoutFires(u)
        [] u.timer = "pending" /\ u.kind = "interval" /\ u.elapsed % u.delay = 0 ->
             IntervalFires(u)
        [] OTHER -> u

\* The calling scope is disposed: the effect is disposed, and the
\* 'dispose' listener of a sleep still set runs.
OnTimerScopeDispose(t) ==
  IF t.listener = "set" THEN SleepDisposed(t) ELSE DisposeEffect(t)

(***************************************************************************)
(* The entry points that build the per-call config themselves: the verb    *)
(* shortcuts and file.  A key of a config object is "unset" when the       *)
(* object has no such key, "undefined" when it has it with the value       *)
(* undefined.  Method names are compared without regard to letter case.    *)
(***************************************************************************)
DataVerbs == {"patch", "post", "put"}
Verbs == {"get", "delete"} \cup DataVerbs

FrontKeys == {"method", "data", "timeout"}

\* A config object without keys.
NoKeys == [k \in FrontKeys |-> "unset"]

\* The config argument of a shortcut.
ShortcutConfigs ==
  [method : {"unset", "undefined", "get", "post"},
   data : {"unset", "undefined", "x"},
   timeout : {"unset", "O"}]

\* The instance config and the http config of an intercept layer, as far
\* as they matter here: each sets a timeout or not.
TimeoutLayers(tag) == {[NoKeys EXCEPT !.timeout = t] : t \in {"unset", tag}}

\* options.timeout of file: absent, 0 or a positive number.
FileTimeouts == {"unset", "0", "F"}

\* value ?? other, config.key read as a value
Nullish(value) == value \in {"unset", "undefined"}

\* { method, ...config } and { method, data, ...config }: the keys of
\* config come last.
ShortcutInit(verb, data, config) ==
  Spread([NoKeys EXCEPT !.method = verb,
                        !.data = IF verb \in DataVerbs THEN data ELSE "unset"],
         config)

\* { method: 'GET', responseType, timeout: +options.timeout! || undefined }
FileInit(timeout) ==
  [NoKeys EXCEPT !.method = "get",
                 !.timeout = IF timeout = "F" THEN "F" ELSE "undefined"]

\* resolveConfig on the keys outside headers: the instance config, the
\* intercept layer, the per-call config, each spread over the one before.
ResolveKeys(config, layer, init) == Spread(Spread(config, layer), init)

\* What the executor hands to the transport:
\* method ??= config.method ?? 'GET'; body: config.data; the timer of
\* config.timeout.
Dispatched(config) ==
  [method  |-> IF Nullish(config.method) THEN "get" ELSE config.method,
   body    |-> IF Nullish(config.data) THEN "undefined" ELSE config.data,
   timeout |-> IF Nullish(config.timeout) THEN "undefined" ELSE config.timeout]

\* No such call under study.
NoFront ==
  [pc      |-> "off",
   via     |-> "get",        \* the entry point: a verb, or "file"
   data    |-> "undefined",  \* the positional data argument
   cfg     |-> NoKeys,       \* the config argument
   options |-> "unset",      \* options.timeout of file
   config  |-> NoKeys,       \* this.config
   layer   |-> NoKeys,       \* the http config of the intercept layer
   out     |-> [method |-> "none", body |-> "none", timeout |-> "none"]]

BuiltinDecoders ==
  CASE impl = "httpPkg" -> {}
    [] impl = "coreB"   -> {"json", "text", "blob", "arraybuffer", "formdata",
                            "stream", "headers"}
    [] OTHER            -> {"json", "text", "blob", "arraybuffer", "formdata",
                            "stream"}

BuiltinProxies == IF impl \in ProxyImpls THEN {"http", "https"} ELSE {}

Init ==
  /\ impl \in Impls
  /\ scope = "active"
  /\ signal = [aborted |-> FALSE, reason |-> NoErr]
  /\ decoders = BuiltinDecoders
  /\ proxies = BuiltinProxies
  /\ call = IdleCall
  /\ merge = NoMerge
  /\ registry = NoRegistry
  /\ url = NoURL
  /\ sockets = <<>>
  /\ timers = <<>>
  /\ front = NoFront

(***************************************************************************)
(* HTTP[Service.invoke] up to its first await (the transport call).        *)
(***************************************************************************)
\* config.responseType as the executor sees it: coreB's head shortcut passes
\* { method: 'HEAD', responseType: 'headers', ...config }.
ResponseTypeOf(cfg) ==
  IF impl = "coreB" /\ cfg.form = "head" /\ cfg.responseType = "none"
    THEN "headers"
    ELSE cfg.responseType

\* The decoder config.responseType selects: "fn" the caller's function,
\* "default" the content-type decoder, a tag its registered decoder, and
\* "unknown" when the tag has none.
SelectDecoder(cfg) ==
  LET responseType == ResponseTypeOf(cfg)
  IN  CASE responseType = "none" -> "default"
        [] impl = "httpPkg" ->
             IF responseType = "arraybuffer" THEN "arraybuffer" ELSE "default"
        [] responseType = "fn" -> IF impl = "coreA" THEN "unknown" ELSE "fn"
        [] responseType \in decoders -> responseType
        [] OTHER -> "unknown"

UnknownResponseType ==
  Err("Unknown responseType", "none", FALSE, "none", FALSE)

ProxyError == Err("Cannot resolve proxy agent", "none", FALSE, "none", FALSE)

\* throw new TypeError(`Invalid URL: ${url}`)
InvalidURLError == Err("Invalid URL", "none", FALSE, "none", FALSE)

\* What fetch rejects with when it cannot parse its input.
FetchURLError == Err("Failed to parse URL", "none", FALSE, "none", FALSE)

\* if (config.proxyAgent) { factory = this._proxies[scheme]; if (!factory) throw }
ProxyResolves(cfg) ==
  \/ impl \notin ProxyImpls
  \/ cfg.proxy = "none"
  \/ cfg.proxy \in proxies

\* The effect body: the timer is armed only when config.timeout is set.
ArmTimeout(c) ==
  [c EXCEPT !.effect = TRUE,
            !.timer = IF c.cfg.timeout THEN "pending" ELSE "none"]

\* Dispatch with the decoder looked up before the transport call, as the
\* lookup would be if it were done at request-build time.
DispatchLooksUpDecoderFirst(c) ==
  IF SelectDecoder(c.cfg) = "unknown"
    THEN [c EXCEPT !.pc = "rejected", !.err = UnknownResponseType]
    ELSE IF ProxyResolves(c.cfg)
           THEN [c EXCEPT !.fetches = @ + 1, !.pc = "awaiting"]
           ELSE [c EXCEPT !.pc = "rejected", !.err = ProxyError]

\* try { ...proxy resolution...; await fetch(url, init) }
Dispatch(c) ==
  IF ProxyResolves(c.cfg)
    THEN [c EXCEPT !.fetches = @ + 1, !.pc = "awaiting"]
    ELSE Throw(c, ProxyError)

\* InvokeBody with the timeout armed before config.signal is tested.
InvokeBodyArmsFirst(c) ==
  IF impl = "httpPkg"
    THEN Dispatch(ArmTimeout(c))
    ELSE IF c.cfg.url = "invalid"
    THEN [c EXCEPT !.pc = "rejected", !.err = InvalidURLError]
    ELSE IF c.cfg.signal /\ signal.aborted
           THEN [ArmTimeout(c) EXCEPT !.pc = "rejected", !.err = signal.reason]
           ELSE Dispatch(ArmTimeout([c EXCEPT !.listening = c.cfg.signal]))

\* const config = this.resolveConfig(args[1])
\* const url = this.resolveURL(args[0], config)    (throws: the call ends)
\* then the controller, config.signal, the timeout and the try block.
\* httpPkg's resolveURL throws nothing: it hands the input on to fetch.
InvokeBody(c) ==
  IF impl = "httpPkg"
    THEN Dispatch(ArmTimeout(c))
    ELSE IF c.cfg.url = "invalid"
           THEN [c EXCEPT !.pc = "rejected", !.err = InvalidURLError]
           ELSE IF c.cfg.signal /\ signal.aborted
                  THEN [c EXCEPT !.pc = "rejected", !.err = signal.reason]
                  ELSE Dispatch(ArmTimeout([c EXCEPT !.listening = c.cfg.signal]))

\* The call is made from a live scope: ctx.effect and ctx.on register with
\* the scope that owns the call.
Invoke(cfg) ==
  /\ call.pc = "idle"
  /\ scope = "active"
  /\ call' = InvokeBody([call EXCEPT !.cfg = cfg,
                                     !.known = cfg.responseType \in decoders])
  /\ signal' = SignalAfter(signal, call')
  /\ UNCHANGED <<merge, registry, url, impl, scope, decoders, proxies, sockets, timers, front>>

(***************************************************************************)
(* The three cancellation sources.                                         *)
(***************************************************************************)
InFlight == {"awaiting", "decoding", "errdecoding"}

\* Records, for the properties, the first cancellation event that reaches
\* the call while it is in flight; the code does not read it.
Saw(c, event) ==
  IF c.pc \in InFlight /\ c.first = "none" THEN [c EXCEPT !.first = event] ELSE c

\* The listener as it would be if it never forwarded the abort.
SignalListenerDropped(c, reason) == c

\* config.signal.addEventListener('abort', () => {
\*   controller.abort(config.signal.reason) })
\* The listener is added for good: nothing takes it off the signal.
SignalListener(c, reason) ==
  IF c.listening THEN Abort(Saw(c, "signal"), reason, "signal") ELSE c

\* The caller aborts config.signal; the listeners on it run.
ExternalAbort ==
  /\ ~signal.aborted
  /\ signal' = [aborted |-> TRUE, reason |-> UserAbortReason]
  /\ call' = SignalListener(call, UserAbortReason)
  /\ UNCHANGED <<merge, registry, url, impl, scope, decoders, proxies, sockets, timers, front>>

\* setTimeout(() => controller.abort(timeout error), config.timeout) fires.
TimerFire ==
  /\ call.timer = "pending"
  /\ call' = Abort(Saw([call EXCEPT !.timer = "fired"], "timer"),
                   TimeoutError, "timer")
  /\ signal' = SignalAfter(signal, call')
  /\ UNCHANGED <<merge, registry, url, impl, scope, decoders, proxies, sockets, timers, front>>

\* What the scope runs for the call when it is disposed: the effect's
\* disposer, or in httpPkg the two 'dispose' listeners (never removed).
OnScopeDispose(c) ==
  IF impl = "httpPkg"
    THEN IF c.effect
           THEN ClearTimeout(Abort(c, ContextDisposedError, "dispose"))
           ELSE c
    ELSE IF c.effect /\ ~c.disposed THEN Dispose(c, FALSE) ELSE c

ScopeDispose ==
  /\ scope = "active"
  /\ scope' = "disposed"
  /\ call' = OnScopeDispose(Saw(call, "dispose"))
  /\ signal' = SignalAfter(signal, call')
  /\ UNCHANGED <<merge, registry, url, impl, decoders, proxies, sockets, timers, front>>

(***************************************************************************)
(* The transport settles, and the call runs on to its next await or end.   *)
(***************************************************************************)
\* httpPkg aborts with bare strings, which have no .message.
IsStringReason(e) == impl = "httpPkg" /\ e.msg \in {"timeout", "context disposed"}

\* FetchCatch without its body: the cause is rethrown as it came.
FetchCatchRethrows(cause) == cause

\* FetchCatch without the HTTP.Error.is test: every cause is wrapped.
FetchCatchWrapsAll(cause) == Err("fetch url failed", "none", TRUE, cause.msg, FALSE)

\* .catch((cause) => { if (HTTP.Error.is(cause)) throw cause; wrap })
\* httpPkg wraps every cause: new HTTP.Error(cause.message).
FetchCatch(cause) ==
  IF impl = "httpPkg"
    THEN Err(IF IsStringReason(cause) THEN "undefined" ELSE cause.msg,
             "none", TRUE, cause.msg, FALSE)
    ELSE IF HTTPErrorIs(cause)
           THEN cause
           ELSE Err("fetch url failed", "none", TRUE, cause.msg, FALSE)

\* The transport rejects by itself.
FetchFail(cause) ==
  /\ call.pc = "awaiting"
  /\ ~call.ctl.aborted
  /\ (call.cfg.url = "invalid") = (cause = FetchURLError)
  /\ call' = Throw([call EXCEPT !.cause = cause], FetchCatch(cause))
  /\ signal' = SignalAfter(signal, call')
  /\ UNCHANGED <<merge, registry, url, impl, scope, decoders, proxies, sockets, timers, front>>

\* The transport observes the abort of init.signal and rejects with the
\* signal's reason.
FetchAborted ==
  /\ call.pc = "awaiting"
  /\ call.ctl.aborted
  /\ call' = Throw([call EXCEPT !.cause = call.ctl.reason],
                   FetchCatch(call.ctl.reason))
  /\ signal' = SignalAfter(signal, call')
  /\ UNCHANGED <<merge, registry, url, impl, scope, decoders, proxies, sockets, timers, front>>

Lt400(status) == status < 400

\* raw.ok
Ok(status) == status >= 200 /\ status < 300

\* config.validateStatus as the executor sees it.  The shortcuts of undios
\* and coreB pass { method, validateStatus, ...config } with the strict
\* predicate, except coreB's head, which passes none.
PassedValidator(cfg) ==
  IF /\ cfg.validateStatus = "none"
     /\ \/ cfg.form = "verb" /\ impl \in {"undios", "coreB"}
        \/ cfg.form = "head" /\ impl = "undios"
    THEN "lt400"
    ELSE cfg.validateStatus

\* The status check of each implementation applied to the call's config:
\* httpPkg tests raw.ok; coreA defaults to status < 400, undios and coreB
\* to () => true.
ValidateStatus(cfg, status) ==
  CASE impl = "httpPkg" -> Ok(status)
    [] impl = "coreA"   ->
         IF PassedValidator(cfg) = "any" THEN TRUE ELSE Lt400(status)
    [] OTHER            ->
         IF PassedValidator(cfg) = "lt400" THEN Lt400(status) ELSE TRUE

\* new HTTP.Error(raw.statusText) with the response attached.
StatusError ==
  Err("statusText", IF impl = "coreB" THEN "STATUS_ERROR" ELSE "none",
      TRUE, "none", TRUE)

\* decoder(raw) is invoked: the call awaits the body it reads.
Read(c, decoder, pc) == [c EXCEPT !.pc = pc, !.reads = Append(@, decoder)]

\* AfterFetch as it would be if the selected decoder were applied to the
\* response whatever its status.
AfterFetchDecodesAll(c0, status, type) ==
  LET c == [c0 EXCEPT !.resp = [status |-> status, type |-> type, data |-> "null"]]
  IN  IF SelectDecoder(c.cfg) = "unknown"
        THEN Throw(c, UnknownResponseType)
        ELSE Read(c, SelectDecoder(c.cfg),
                  IF ValidateStatus(c.cfg, status) THEN "decoding" ELSE "errdecoding")

\* After `const raw = await fetch(...)`: status validation, then the
\* decoder lookup, up to the await of the body.  coreB returns the raw
\* response from the call (finally runs) and decodes in the verb shortcut.
AfterFetch(c0, status, type) ==
  LET c == [c0 EXCEPT !.resp = [status |-> status, type |-> type, data |-> "null"]]
  IN  IF impl = "coreB"
        THEN LET d == Finally(c)
             IN  IF c.cfg.form = "bare"
                   THEN [d EXCEPT !.pc = "resolved", !.resp.data = "raw"]
                   ELSE IF ~ValidateStatus(c.cfg, status)
                          THEN [d EXCEPT !.pc = "rejected", !.err = StatusError]
                          ELSE IF SelectDecoder(c.cfg) = "unknown"
                                 THEN [d EXCEPT !.pc = "rejected",
                                                !.err = UnknownResponseType]
                                 ELSE Read(d, SelectDecoder(c.cfg), "decoding")
        ELSE IF ~ValidateStatus(c.cfg, status)
               THEN Read(c, "default", "errdecoding")
               ELSE IF SelectDecoder(c.cfg) = "unknown"
                      THEN Throw(c, UnknownResponseType)
                      ELSE Read(c, SelectDecoder(c.cfg), "decoding")

FetchRespond(status, type) ==
  /\ call.pc = "awaiting"
  /\ ~call.ctl.aborted
  /\ call.cfg.url = "valid"
  /\ call' = AfterFetch(call, status, type)
  /\ signal' = SignalAfter(signal, call')
  /\ UNCHANGED <<merge, registry, url, impl, scope, decoders, proxies, sockets, timers, front>>

\* type?.startsWith(prefix) on the content types of ContentTypes.
StartsWith(type, prefix) ==
  CASE prefix = "application/json" -> type = "application/json; charset=utf-8"
    [] prefix = "text/"            -> type = "text/plain"
    [] OTHER                       -> FALSE

\* DefaultDecoder comparing the whole header with the media type.
DefaultDecoderByEquality(type) ==
  CASE type = "application/json" -> "json"
    [] type = "text/plain"       -> "text"
    [] OTHER                     -> "arraybuffer"

\* defaultDecoder(response): by the Content-Type header.  httpPkg's decode
\* compares the header with 'application/json' for equality.
DefaultDecoder(type) ==
  CASE (IF impl = "httpPkg" THEN type = "application/json"
                            ELSE StartsWith(type, "application/json")) -> "json"
    [] StartsWith(type, "text/") -> "text"
    [] OTHER                     -> "arraybuffer"

\* What the selected decoder makes of the body.
Decoded(c) ==
  LET d == IF c.pc = "errdecoding" THEN "default" ELSE SelectDecoder(c.cfg)
  IN  IF d = "default" THEN DefaultDecoder(c.resp.type) ELSE d

DecodeError == Err("decode error", "none", FALSE, "none", FALSE)

\* The failures reading the body can end in: the decoder's own, or the
\* abort reason once the controller is aborted (the body stream errors).
DecodeFailures(c) ==
  {DecodeError} \cup (IF c.ctl.aborted THEN {c.ctl.reason} ELSE {})

\* In coreB the body is decoded after the call's finally block has run.
EndOfCall(c) == IF impl = "coreB" THEN c ELSE Finally(c)

\* AfterDecode without the try {} catch {} around the error body's decoder.
AfterDecodeUnguarded(c, ok, e) ==
  IF ok
    THEN [EndOfCall(c) EXCEPT
            !.pc = IF c.pc = "errdecoding" THEN "rejected" ELSE "resolved",
            !.err = IF c.pc = "errdecoding" THEN StatusError ELSE c.err,
            !.resp.data = Decoded(c)]
    ELSE [EndOfCall(c) EXCEPT !.pc = "rejected", !.err = e]

\* `response.data = await decoder(raw)` settles.  On the error path a
\* failure is swallowed (try {} catch {}) and the status error is thrown.
AfterDecode(c, ok, e) ==
  IF c.pc = "errdecoding"
    THEN [EndOfCall(c) EXCEPT
            !.pc = "rejected", !.err = StatusError,
            !.resp.data = IF ok THEN Decoded(c) ELSE "null"]
    ELSE IF ok
           THEN [EndOfCall(c) EXCEPT !.pc = "resolved", !.resp.data = Decoded(c)]
           ELSE [EndOfCall(c) EXCEPT !.pc = "rejected", !.err = e]

DecodeDone(ok, e) ==
  /\ call.pc \in {"decoding", "errdecoding"}
  /\ e \in DecodeFailures(call)
  /\ call' = AfterDecode(call, ok, e)
  /\ signal' = SignalAfter(signal, call')
  /\ UNCHANGED <<merge, registry, url, impl, scope, decoders, proxies, sockets, timers, front>>

Next ==
  \/ \E cfg \in Configs : Invoke(cfg)
  \/ ExternalAbort
  \/ TimerFire
  \/ ScopeDispose
  \/ \E cause \in {NetworkError, TransportHTTPError, FetchURLError} :
       FetchFail(cause)
  \/ FetchAborted
  \/ \E status \in Statuses, type \in ContentTypes : FetchRespond(status, type)
  \/ \E ok \in BOOLEAN, e \in DecodeFailures(call) : DecodeDone(ok, e)

Spec == Init /\ [][Next]_vars

(***************************************************************************)
(* The executor while the decoder registry changes under it: a scope       *)
(* registers a decoder for a new tag and retracts it, at any moment.       *)
(***************************************************************************)
\* http.decoder(type, fn): this._decoders[type] = decoder
DecoderRegistered(type) ==
  /\ impl # "httpPkg"
  /\ type \notin decoders
  /\ decoders' = decoders \cup {type}
  /\ UNCHANGED <<impl, scope, signal, proxies, call, merge, registry, url,
                 sockets, timers, front>>

\* The registration is retracted: delete this._decoders[type]
DecoderRetracted(type) ==
  /\ impl # "httpPkg"
  /\ type \in decoders
  /\ decoders' = decoders \ {type}
  /\ UNCHANGED <<impl, scope, signal, proxies, call, merge, registry, url,
                 sockets, timers, front>>

FlightNext ==
  \/ Next
  \/ DecoderRegistered("xml")
  \/ DecoderRetracted("xml")

FlightSpec == Init /\ [][FlightNext]_vars

(***************************************************************************)
(* The config merger on its own: the layers are drawn, then resolved.      *)
(***************************************************************************)
MergeInit ==
  /\ impl \in MergeImpls
  /\ scope = "active"
  /\ signal = [aborted |-> FALSE, reason |-> NoErr]
  /\ decoders = BuiltinDecoders
  /\ proxies = BuiltinProxies
  /\ call = IdleCall
  /\ registry = NoRegistry
  /\ url = NoURL
  /\ \E config \in Layers("I"), chain \in AllChains, init \in Layers("O") :
       merge = [NoMerge EXCEPT !.pc = "ready", !.config = config,
                               !.chain = chain, !.init = init]
  /\ sockets = <<>>
  /\ timers = <<>>
  /\ front = NoFront

\* const config = this.resolveConfig(args[1])
ResolveConfigCall ==
  /\ merge.pc = "ready"
  /\ merge' = [ResolveConfig(merge) EXCEPT !.pc = "resolved"]
  /\ UNCHANGED <<impl, scope, signal, decoders, proxies, call, registry, url, sockets, timers, front>>

\* const child = http.extend(over), before or after a call of the parent.
ExtendCall(over) ==
  /\ merge.pc \in {"ready", "resolved"}
  /\ merge.over = NoLayer
  /\ merge' = Extend(merge, over)
  /\ UNCHANGED <<impl, scope, signal, decoders, proxies, call, registry, url, sockets, timers, front>>

\* The executor goes on from the effective config to the RequestInit; the
\* data is what config.data holds.
BuildRequest(data) ==
  /\ merge.pc = "resolved"
  /\ merge' = [merge EXCEPT !.pc = "built",
                            !.request = RequestInit(merge.result, data)]
  /\ UNCHANGED <<impl, scope, signal, decoders, proxies, call, registry, url, sockets, timers, front>>

\* A call resolves its config while an 'http/config' observer that sets
\* header h is listening; the client is used for call after call.
ObservedResolveCall(h) ==
  /\ merge.pc \in {"ready", "resolved"}
  /\ merge' = [ResolveConfigObserved(merge, h) EXCEPT !.pc = "resolved"]
  /\ UNCHANGED <<impl, scope, signal, decoders, proxies, call, registry, url,
                 sockets, timers, front>>

\* Two calls of a client with at most one intercept layer, each watched by
\* an observer.
ObserveInit ==
  /\ impl \in {"undios", "coreA"}
  /\ scope = "active"
  /\ signal = [aborted |-> FALSE, reason |-> NoErr]
  /\ decoders = BuiltinDecoders
  /\ proxies = BuiltinProxies
  /\ call = IdleCall
  /\ registry = NoRegistry
  /\ url = NoURL
  /\ sockets = <<>>
  /\ timers = <<>>
  /\ \E config \in Layers("I"), chain \in Chains(0) \cup Chains(1),
        init \in Layers("O") :
       merge = [NoMerge EXCEPT !.pc = "ready", !.config = config,
                               !.chain = chain, !.init = init]
  /\ front = NoFront

ObserveNext == \E h \in HeaderNames : ObservedResolveCall(h)

ObserveSpec == ObserveInit /\ [][ObserveNext]_vars

MergeNext ==
  \/ ResolveConfigCall
  \/ \E data \in DataKinds : BuildRequest(data)

\* extend on its own: a client with at most one intercept layer is
\* extended before or after a call resolves its config.
ExtendInit ==
  /\ impl \in MergeImpls \ {"httpPkg"}
  /\ scope = "active"
  /\ signal = [aborted |-> FALSE, reason |-> NoErr]
  /\ decoders = BuiltinDecoders
  /\ proxies = BuiltinProxies
  /\ call = IdleCall
  /\ registry = NoRegistry
  /\ url = NoURL
  /\ \E config \in Layers("I"), init \in Layers("O"),
        chain \in Chains(0) \cup Chains(1) :
       merge = [NoMerge EXCEPT !.pc = "ready", !.config = config,
                               !.chain = chain, !.init = init]
  /\ sockets = <<>>
  /\ timers = <<>>
  /\ front = NoFront

ExtendNext ==
  \/ ResolveConfigCall
  \/ \E over \in Layers("X") : ExtendCall(over)

ExtendSpec == ExtendInit /\ [][ExtendNext]_vars

(***************************************************************************)
(* The registries on their own: a constructed client, registrations and    *)
(* retractions in any order.                                               *)
(***************************************************************************)
RegistryInit ==
  /\ impl \in ProxyImpls
  /\ scope = "active"
  /\ signal = [aborted |-> FALSE, reason |-> NoErr]
  /\ decoders = BuiltinDecoders
  /\ proxies = BuiltinProxies
  /\ call = IdleCall
  /\ merge = NoMerge
  /\ url = NoURL
  /\ registry = Constructed
  /\ sockets = <<>>
  /\ timers = <<>>
  /\ front = NoFront

\* The registries as the executor reads them.
Registries(r) ==
  /\ decoders' = (decoders \ RegTags) \cup DecoderKeys(r)
  /\ proxies' = (proxies \ RegSchemes) \cup ProxyKeys(r)

\* http.decoder(type, fn)
RegisterDecoder(type) ==
  /\ registry.next < Constructed.next + MaxRegistrations
  /\ registry' = Register(registry, "decoder", {type})
  /\ Registries(registry')
  /\ UNCHANGED <<impl, scope, signal, call, merge, url, sockets, timers, front>>

\* http.proxy(name, factory)
RegisterProxy(name) ==
  /\ registry.next < Constructed.next + MaxRegistrations
  /\ registry' = Register(registry, "proxy", name)
  /\ Registries(registry')
  /\ UNCHANGED <<impl, scope, signal, call, merge, url, sockets, timers, front>>

\* The disposer of a registration is called, or its scope is disposed.
RetractRegistration(i) ==
  /\ i \in DOMAIN registry.live
  /\ registry' = Retract(registry, i)
  /\ Registries(registry')
  /\ UNCHANGED <<impl, scope, signal, call, merge, url, sockets, timers, front>>

RegistryNext ==
  \/ \E type \in RegTags : RegisterDecoder(type)
  \/ \E name \in ProxyNames : RegisterProxy(name)
  \/ \E i \in 1..(Len(Constructed.live) + MaxRegistrations) : RetractRegistration(i)

RegistrySpec == RegistryInit /\ [][RegistryNext]_vars

(***************************************************************************)
(* resolveURL on its own, for a URL argument that parses.                  *)
(***************************************************************************)
URLInit ==
  /\ impl \in URLImpls
  /\ scope = "active"
  /\ signal = [aborted |-> FALSE, reason |-> NoErr]
  /\ decoders = {}
  /\ proxies = {}
  /\ call = IdleCall
  /\ merge = NoMerge
  /\ registry = NoRegistry
  /\ \E query \in Queries, params \in AllParams :
       url = [NoURL EXCEPT !.pc = "ready", !.query = query, !.params = params]
  /\ sockets = <<>>
  /\ timers = <<>>
  /\ front = NoFront

\* const url = this.resolveURL(args[0], config)
ResolveURLCall ==
  /\ url.pc = "ready"
  /\ url' = [url EXCEPT !.pc = "resolved",
                        !.out = ResolveURL(url.query, url.params)]
  /\ UNCHANGED <<impl, scope, signal, decoders, proxies, call, merge, registry, sockets, timers, front>>

URLNext == ResolveURLCall

URLSpec == URLInit /\ [][URLNext]_vars

(***************************************************************************)
(* ws on its own: sockets are opened, close by themselves or by their      *)
(* holder, and the scope is disposed.                                      *)
(***************************************************************************)
WSInit ==
  /\ impl \in Impls
  /\ scope = "active"
  /\ signal = [aborted |-> FALSE, reason |-> NoErr]
  /\ decoders = BuiltinDecoders
  /\ proxies = BuiltinProxies
  /\ call = IdleCall
  /\ merge = NoMerge
  /\ registry = NoRegistry
  /\ url = NoURL
  /\ sockets = <<>>
  /\ timers = <<>>
  /\ front = NoFront

\* http.ws(url, config)
WsOpen ==
  /\ scope = "active"
  /\ Len(sockets) < MaxSockets
  /\ sockets' = Append(sockets, NewSocket)
  /\ UNCHANGED <<impl, scope, signal, decoders, proxies, call, merge,
                 registry, url, timers, front>>

\* The holder of the socket calls socket.close().
HolderClose(i) ==
  /\ i \in DOMAIN sockets
  /\ sockets[i].state = "open"
  /\ sockets' = [sockets EXCEPT ![i].state = "closing"]
  /\ UNCHANGED <<impl, scope, signal, decoders, proxies, call, merge,
                 registry, url, timers, front>>

\* The socket's close event: the connection is gone (the peer closed it,
\* it failed, or a close() call completed).
SocketCloseEvent(i) ==
  /\ i \in DOMAIN sockets
  /\ sockets[i].state # "closed"
  /\ sockets' = [sockets EXCEPT
                   ![i] = OnSocketClose([@ EXCEPT !.state = "closed",
                                                  !.closedWhile = scope])]
  /\ UNCHANGED <<impl, scope, signal, decoders, proxies, call, merge,
                 registry, url, timers, front>>

\* The calling scope is disposed: its 'dispose' listeners and effects run.
WSScopeDispose ==
  /\ scope = "active"
  /\ scope' = "disposed"
  /\ sockets' = [i \in DOMAIN sockets |-> HookOnDispose(sockets[i])]
  /\ UNCHANGED <<impl, signal, decoders, proxies, call, merge, registry,
                 url, timers, front>>

WSNext ==
  \/ WsOpen
  \/ \E i \in 1..MaxSockets : HolderClose(i)
  \/ \E i \in 1..MaxSockets : SocketCloseEvent(i)
  \/ WSScopeDispose

WSSpec == WSInit /\ [][WSNext]_vars

(***************************************************************************)
(* The timer service on its own.                                           *)
(***************************************************************************)
TimerInit ==
  /\ impl = "undios"
  /\ scope = "active"
  /\ signal = [aborted |-> FALSE, reason |-> NoErr]
  /\ decoders = BuiltinDecoders
  /\ proxies = BuiltinProxies
  /\ call = IdleCall
  /\ merge = NoMerge
  /\ registry = NoRegistry
  /\ url = NoURL
  /\ sockets = <<>>
  /\ timers = <<>>
  /\ front = NoFront

\* The clock of a behaviour: the longest time a registration has seen.
Clock ==
  IF timers = <<>> THEN 0
  ELSE CHOOSE n \in 0..MaxTime :
         /\ \E i \in DOMAIN timers : timers[i].elapsed = n
         /\ \A i \in DOMAIN timers : timers[i].elapsed <= n

\* ctx.setTimeout(callback, delay), ctx.setInterval(callback, delay) or
\* ctx.sleep(delay)
Register_(kind, delay) ==
  /\ scope = "active"
  /\ Len(timers) < MaxTimers
  /\ timers' = Append(timers, NewTimer(kind, delay))
  /\ UNCHANGED <<impl, scope, signal, decoders, proxies, call, merge,
                 registry, url, sockets, front>>

SetTimeoutCall(delay) == Register_("timeout", delay)

SetIntervalCall(delay) == Register_("interval", delay)

SleepCall(delay) == Register_("sleep", delay)

\* The disposer setTimeout or setInterval returned is called.
CallDisposer(i) ==
  /\ i \in DOMAIN timers
  /\ timers[i].kind # "sleep"
  /\ timers[i].effect = "active"
  /\ timers' = [timers EXCEPT ![i] = DisposeEffect(@)]
  /\ UNCHANGED <<impl, scope, signal, decoders, proxies, call, merge,
                 registry, url, sockets, front>>

\* One unit of time passes.
Tick ==
  /\ timers # <<>>
  /\ Clock < MaxTime
  /\ timers' = [i \in DOMAIN timers |-> Elapse(timers[i])]
  /\ UNCHANGED <<impl, scope, signal, decoders, proxies, call, merge,
                 registry, url, sockets, front>>

\* The calling scope is disposed.
TimerScopeDispose ==
  /\ scope = "active"
  /\ scope' = "disposed"
  /\ timers' = [i \in DOMAIN timers |-> OnTimerScopeDispose(timers[i])]
  /\ UNCHANGED <<impl, signal, decoders, proxies, call, merge, registry,
                 url, sockets, front>>

TimerNext ==
  \/ \E delay \in Delays : SetTimeoutCall(delay)
  \/ \E delay \in Delays : SetIntervalCall(delay)
  \/ \E delay \in Delays : SleepCall(delay)
  \/ \E i \in 1..MaxTimers : CallDisposer(i)
  \/ Tick
  \/ TimerScopeDispose

TimerSpec == TimerInit /\ [][TimerNext]_vars

(***************************************************************************)
(* The verb shortcuts and file on their own: the arguments are drawn, the  *)
(* call is made.                                                           *)
(***************************************************************************)
FrontInit ==
  /\ impl \in {"undios", "coreA"}
  /\ scope = "active"
  /\ signal = [aborted |-> FALSE, reason |-> NoErr]
  /\ decoders = BuiltinDecoders
  /\ proxies = BuiltinProxies
  /\ call = IdleCall
  /\ merge = NoMerge
  /\ registry = NoRegistry
  /\ url = NoURL
  /\ sockets = <<>>
  /\ timers = <<>>
  /\ \E config \in TimeoutLayers("I"), layer \in TimeoutLayers("C") :
       \/ \E verb \in Verbs, data \in {"undefined", "d"},
             cfg \in ShortcutConfigs :
            /\ verb \notin DataVerbs => data = "undefined"
            /\ front = [NoFront EXCEPT !.pc = "ready", !.via = verb,
                                       !.data = data, !.cfg = cfg,
                                       !.config = config, !.layer = layer]
       \/ \E timeout \in FileTimeouts :
            /\ impl = "coreA"
            /\ front = [NoFront EXCEPT !.pc = "ready", !.via = "file",
                                       !.options = timeout,
                                       !.config = config, !.layer = layer]

\* http.get(url, cfg), http.post(url, data, cfg), ...
ShortcutCall ==
  /\ front.pc = "ready"
  /\ front.via \in Verbs
  /\ front' =
       [front EXCEPT
          !.pc = "sent",
          !.out = Dispatched(ResolveKeys(front.config, front.layer,
                     ShortcutInit(front.via, front.data, front.cfg)))]
  /\ UNCHANGED <<impl, scope, signal, decoders, proxies, call, merge,
                 registry, url, sockets, timers>>

\* http.file(url, options), for a url that is fetched
FileCall ==
  /\ front.pc = "ready"
  /\ front.via = "file"
  /\ front' =
       [front EXCEPT
          !.pc = "sent",
          !.out = Dispatched(ResolveKeys(front.config, front.layer,
                                         FileInit(front.options)))]
  /\ UNCHANGED <<impl, scope, signal, decoders, proxies, call, merge,
                 registry, url, sockets, timers>>

FrontNext == ShortcutCall \/ FileCall

FrontSpec == FrontInit /\ [][FrontNext]_vars

MergeSpec == MergeInit /\ [][MergeNext]_vars

\* The event loop runs a due timer, and the transport rejects a call whose
\* signal is aborted; nothing makes the transport answer, the caller abort
\* or the scope end.
LiveSpec == Spec /\ WF_vars(TimerFire) /\ WF_vars(FetchAborted)

TypeOK ==
  /\ impl \in Impls
  /\ scope \in {"active", "disposed"}
  /\ call.pc \in {"idle", "awaiting", "decoding", "errdecoding"} \cup Finished
  /\ call.cfg \in Configs
  /\ call.timer \in {"none", "pending", "fired", "cleared"}

(***************************************************************************)
(* Properties.  A property about code that only some implementations have  *)
(* names them; the others are outside it.                                  *)
(***************************************************************************)
\* config.responseType is a string tag without a decoder.
UnregisteredTag(cfg) == cfg.responseType \notin decoders \cup {"none", "fn"}

\* C1, as claimed: a call that fails with 'Unknown responseType: <tag>' has
\* invoked the transport zero times.
C1_UnknownTypeBeforeDispatch ==
  (call.pc = "rejected" /\ call.err = UnknownResponseType) => call.fetches = 0

\* C1, amended: a call fails with 'Unknown responseType: <tag>' only after
\* it has invoked the transport once and the transport has answered with a
\* status that validation accepts; and every call with an unregistered tag
\* whose response passes validation fails so (in coreB when it is made
\* through a shortcut, which is what runs _decode).
C1_UnknownTypeAfterDispatch ==
  /\ call.err = UnknownResponseType =>
       /\ call.pc = "rejected"
       /\ call.fetches = 1
       /\ call.resp.status \in Statuses
       /\ ValidateStatus(call.cfg, call.resp.status)
  /\ ( /\ impl \in EffectImpls
       /\ call.pc \in Finished
       /\ UnregisteredTag(call.cfg)
       /\ call.resp.status \in Statuses
       /\ ValidateStatus(call.cfg, call.resp.status)
       /\ (impl = "coreB" => call.cfg.form # "bare") )
     => call.err = UnknownResponseType

C1_Witness ==
  /\ call.err = UnknownResponseType
  /\ call.cfg.responseType = "xml"
  /\ call.fetches = 1

\* C2: a call whose proxyAgent scheme has no factory (and whose URL parses
\* and whose signal was not already aborted, which are tested first) fails
\* with 'Cannot resolve proxy agent ...'; the transport was invoked zero
\* times and the call's timeout timer is not pending afterwards.
C2_ProxyMiss ==
  /\ [](call.err = ProxyError =>
          call.pc = "rejected" /\ call.fetches = 0 /\ call.timer # "pending")
  /\ [][( /\ call.pc = "idle" /\ call'.pc # "idle"
          /\ impl \in ProxyImpls
          /\ ~ProxyResolves(call'.cfg)
          /\ call'.cfg.url = "valid"
          /\ ~(call'.cfg.signal /\ signal.aborted) )
        => call'.err = ProxyError]_vars

C2_Witness ==
  /\ call.err = ProxyError
  /\ call.cfg.proxy = "socks5"
  /\ call.cfg.timeout
  /\ call.timer = "cleared"

\* C3: when config.signal is already aborted as the call starts (with a
\* URL that parses, which is resolved before the signal is looked at), the
\* call rejects with exactly the signal's reason, the transport is never
\* invoked and no timeout timer is ever registered.
C3_PreAbortedSignal ==
  /\ [][( /\ call.pc = "idle" /\ call'.pc # "idle"
          /\ impl \in EffectImpls
          /\ call'.cfg.url = "valid"
          /\ call'.cfg.signal /\ signal.aborted )
        => ( /\ call'.pc = "rejected"
             /\ call'.err = signal.reason
             /\ call'.fetches = 0
             /\ call'.timer = "none"
             /\ ~call'.effect )]_vars
  /\ [][call.pc = "rejected"
        => ( /\ call'.pc = "rejected"
             /\ call'.fetches = call.fetches
             /\ (call.timer = "none" => call'.timer = "none") )]_vars

C3_Witness ==
  /\ call.pc = "rejected"
  /\ call.err = UserAbortReason
  /\ call.cfg.signal
  /\ call.cfg.timeout
  /\ call.fetches = 0
  /\ scope = "disposed"

\* C4: when the timer fires while the call awaits the transport, the
\* controller is aborted with the uniform error 'request timeout' carrying
\* the timeout code, and the call rejects with that very error, not with a
\* 'fetch ... failed' wrapper around it.
C4_TimeoutRejectsUnwrapped ==
  /\ [][( /\ impl \in EffectImpls
          /\ call.pc = "awaiting"
          /\ call.timer = "pending" /\ call'.timer = "fired" )
        => ( /\ call'.ctl.aborted
             /\ call'.ctl.reason = TimeoutError
             /\ call'.ctl.reason.msg = "request timeout"
             /\ call'.ctl.reason.code \in TimeoutCodes
             /\ HTTPErrorIs(call'.ctl.reason) )]_vars
  /\ [][( /\ impl \in EffectImpls
          /\ call.pc = "awaiting"
          /\ call.ctl.aborted /\ call.ctl.by = "timer"
          /\ call'.pc # "awaiting" )
        => (call'.pc = "rejected" /\ call'.err = TimeoutError)]_vars

C4_Witness ==
  /\ impl = "undios"
  /\ call.pc = "rejected"
  /\ call.err = TimeoutError
  /\ call.ctl.by = "timer"
  /\ call.fetches = 1

\* C5, as claimed: a call with a timeout whose transport never responds
\* eventually rejects, whatever the order of the timer, the external abort
\* and the disposal of the owning scope.
C5_TimeoutCallEventuallyRejects ==
  (call.pc = "awaiting" /\ call.cfg.timeout)
    ~> (call.pc = "rejected" \/ call.resp.status \in Statuses)

\* C6, as claimed: when the owning scope is disposed while the call awaits
\* the transport, the internal controller is aborted, with a reason that is
\* not the timeout's, and the call rejects.
C6_ScopeDisposalAborts ==
  /\ [][( /\ scope = "active" /\ scope' = "disposed"
          /\ call.pc = "awaiting" /\ ~call.ctl.aborted )
        => ( /\ call'.ctl.aborted
             /\ call'.ctl.by = "dispose"
             /\ call'.ctl.reason # TimeoutError )]_vars
  /\ [][( /\ call.pc = "awaiting"
          /\ call.ctl.aborted /\ call.ctl.by = "dispose"
          /\ call'.pc # "awaiting" )
        => call'.pc = "rejected"]_vars

\* C7, as claimed: a rejected call's error carries the timeout code if and
\* only if the call was aborted by the timeout timer and rejected with that
\* abort's reason; a rejection caused by scope disposal or by the external
\* signal never carries the timeout code.
C7_TimeoutCodeIffTimer ==
  (impl \in {"undios", "coreA"} /\ call.pc = "rejected") =>
    ( call.err.code \in TimeoutCodes
        <=> (call.ctl.by = "timer" /\ call.err = call.ctl.reason) )

\* C8, as claimed: once the call is resolved or rejected its timeout timer
\* is not pending.
C8_NoTimerAfterFinish ==
  call.pc \in Finished => call.timer # "pending"

\* C9: with the timeout registered through ctx.effect, the teardown
\* callback has run exactly once when the call is finished and never runs
\* twice, whichever of the abort listener, the finally block and the scope
\* invokes the disposer first; invoking the disposer again changes no state
\* and aborts nothing.
C9_TeardownExactlyOnce ==
  /\ [](impl \in EffectImpls =>
          /\ call.teardowns <= 1
          /\ (call.disposed <=> call.teardowns = 1)
          /\ (call.pc \in Finished /\ call.effect => call.teardowns = 1))
  /\ [][(impl \in EffectImpls /\ call.disposed) =>
          /\ call'.teardowns = call.teardowns
          /\ call'.timer = call.timer
          /\ (scope' # scope => call'.ctl = call.ctl)
          /\ Dispose(call, FALSE) = call /\ Dispose(call, TRUE) = call]_vars

C9_Witness ==
  /\ impl = "coreA"
  /\ call.pc = "rejected"
  /\ call.err = TimeoutError
  /\ call.attempts = <<"timer", "dispose">>
  /\ call.teardowns = 1
  /\ scope = "disposed"

\* C10, as claimed: the abort reason of the internal controller is set by
\* whichever of external abort, timeout firing and scope disposal reaches
\* the call first, and never changes afterwards; a later abort attempt
\* leaves the reason and the outcome of the call unchanged.
C10_FirstCancellationSetsReason ==
  /\ []((call.ctl.aborted /\ call.first # "none") => call.ctl.by = call.first)
  /\ [][call.ctl.aborted => call'.ctl = call.ctl]_vars
  /\ [][call.pc \in Finished =>
          (call'.pc = call.pc /\ call'.err = call.err)]_vars

\* C11: when config.signal is aborted while the call awaits the transport
\* (and no other abort came first), the internal controller is aborted with
\* the signal's reason; the aborted transport call can only reject, which
\* ends the call in a rejection built from that reason; and the call does
\* reject eventually.
C11_ExternalAbortMidFlight ==
  /\ [][( /\ impl \in EffectImpls
          /\ call.pc = "awaiting" /\ call.cfg.signal /\ ~call.ctl.aborted
          /\ ~signal.aborted /\ signal'.aborted )
        => ( /\ call'.ctl.aborted
             /\ call'.ctl.reason = signal'.reason
             /\ call'.ctl.by = "signal"
             /\ call'.pc = "awaiting" )]_vars
  /\ [][( /\ impl \in EffectImpls
          /\ call.pc = "awaiting"
          /\ call.ctl.aborted /\ call.ctl.by = "signal"
          /\ call'.pc # "awaiting" )
        => ( /\ call'.pc = "rejected"
             /\ call'.err = FetchCatch(signal.reason)
             /\ call'.err.cause = signal.reason.msg
             /\ call'.resp = NoResponse )]_vars
  /\ ( /\ impl \in EffectImpls
       /\ call.pc = "awaiting"
       /\ call.ctl.aborted /\ call.ctl.by = "signal" )
     ~> (call.pc = "rejected")

C11_Witness ==
  /\ impl = "undios"
  /\ call.pc = "rejected"
  /\ call.ctl.by = "signal"
  /\ call.ctl.reason = UserAbortReason
  /\ call.err.cause = "user abort"
  /\ call.fetches = 1
  /\ call.first = "signal"

\* C12: config.signal changes only when the caller aborts it.  The step
\* that changes it is no timeout firing, no scope disposal and no
\* completion or failure of the call, and the reason it ends up with is the
\* caller's, never one the call aborted its own controller with.
C12_SignalNeverAbortedByCall ==
  /\ [](signal.aborted => signal.reason = UserAbortReason)
  /\ [](~signal.aborted => signal.reason = NoErr)
  /\ [][signal' # signal =>
          ( /\ ~signal.aborted /\ signal'.aborted
            /\ scope' = scope
            /\ call'.pc = call.pc
            /\ (call'.timer # "fired" \/ call.timer = "fired")
            /\ call'.fetches = call.fetches )]_vars
  /\ [][( \/ call'.pc # call.pc
          \/ scope' # scope
          \/ (call.timer = "pending" /\ call'.timer = "fired") )
        => signal' = signal]_vars

\* The controller is aborted by the timer or the scope while config.signal,
\* which the call was given, is still untouched.
C12_Witness ==
  /\ call.cfg.signal
  /\ call.listening
  /\ call.ctl.aborted
  /\ call.ctl.by \in {"timer", "dispose"}
  /\ call.pc = "rejected"
  /\ call.teardowns = 1
  /\ ~signal.aborted

\* C13, as claimed: once the call is resolved or rejected no listener of
\* the call is left on config.signal, and aborting config.signal afterwards
\* does nothing to the finished call.
C13_NoListenerAfterFinish ==
  /\ [](call.pc \in Finished => ~call.listening)
  /\ [][(call.pc \in Finished /\ ~signal.aborted /\ signal'.aborted)
        => call' = call]_vars

\* C14: when the transport rejects with a failure that is no uniform error,
\* the call rejects with a uniform error 'fetch <url> failed' whose cause is
\* that failure; when it rejects with a uniform error, the call rejects
\* with that very error.  Either way the transport was called once and no
\* response is attached.
C14_FetchFailureWrapping ==
  (impl \in EffectImpls /\ call.cause # NoErr) =>
    /\ call.pc = "rejected"
    /\ call.fetches = 1
    /\ call.resp = NoResponse
    /\ HTTPErrorIs(call.cause) => call.err = call.cause
    /\ ~HTTPErrorIs(call.cause) =>
         /\ HTTPErrorIs(call.err)
         /\ call.err.msg = "fetch url failed"
         /\ call.err.cause = call.cause.msg
         /\ ~call.err.resp

C14_Witness ==
  /\ impl = "coreB"
  /\ call.cause = NetworkError
  /\ call.err.msg = "fetch url failed"
  /\ call.err.cause = "network error"
  /\ ~call.ctl.aborted

\* C15, as claimed: whatever a call rejects with because of an invalid URL,
\* an unresolvable proxy, a transport failure, a timeout, a failed status
\* validation or an unknown responseType is an error HTTPError.is accepts.
C15_EveryFailureIsUniform ==
  ( /\ call.pc = "rejected"
    /\ call.err.msg \in {"Cannot resolve proxy agent", "fetch url failed",
                         "request timeout", "statusText",
                         "Unknown responseType", "Invalid URL"} )
  => HTTPErrorIs(call.err)

\* C16, as claimed: a shortcut (get, delete, head, patch, post, put) called
\* without validateStatus ends in the status error exactly when the
\* response status is 400 or more.
C16_ShortcutsRejectFrom400 ==
  ( /\ impl \in {"undios", "coreB"}
    /\ call.cfg.form \in {"verb", "head"}
    /\ call.cfg.validateStatus = "none"
    /\ call.pc \in Finished
    /\ call.resp.status \in Statuses )
  => ( call.resp.status >= 400
         <=> (call.pc = "rejected" /\ call.err = StatusError) )

\* C17, as claimed: the bare call rejects with the status error only when
\* the caller passed a validateStatus that is false for the status; without
\* one it never does, whatever the status.
C17_BareRejectsOnlyByCallerPredicate ==
  ( /\ impl \in EffectImpls
    /\ call.cfg.form = "bare"
    /\ call.pc = "rejected"
    /\ call.err = StatusError )
  => ( /\ call.cfg.validateStatus = "lt400"
       /\ ~Lt400(call.resp.status) )

\* C18: when the status check fails, the call decodes the body with the
\* default decoder and then always rejects with the status error (message
\* statusText, response attached), never with what the decoder threw:
\* response.data is the decoded body, or null when decoding failed.  A call
\* whose status check failed never ends any other way.
C18_StatusErrorSurvivesDecode ==
  /\ [][( /\ call.pc = "awaiting"
          /\ call'.resp.status \in Statuses
          /\ ~ValidateStatus(call.cfg, call'.resp.status)
          /\ impl # "coreB" )
        => (call'.pc = "errdecoding" /\ call'.resp.data = "null")]_vars
  /\ [][(call.pc = "errdecoding" /\ call'.pc # "errdecoding")
        => ( /\ call'.pc = "rejected"
             /\ call'.err = StatusError
             /\ call'.err.msg = "statusText"
             /\ call'.err.resp
             /\ call'.resp.status = call.resp.status
             /\ call'.resp.data \in {"null", DefaultDecoder(call.resp.type)} )]_vars

C18_Witness ==
  /\ impl = "undios"
  /\ call.pc = "rejected"
  /\ call.err = StatusError
  /\ call.resp.status = 404
  /\ call.resp.type = "application/json; charset=utf-8"
  /\ call.resp.data = "null"
  /\ call.ctl.aborted

\* C19: a call invokes the transport at most once.  The one invocation is
\* made as the call starts; afterwards, whatever the call runs into, the
\* count stays.
C19_AtMostOneTransportCall ==
  /\ [](call.fetches <= 1)
  /\ [](call.pc \in InFlight => call.fetches = 1)
  /\ [][call.pc # "idle" => call'.fetches = call.fetches]_vars

C19_Witness ==
  /\ call.pc = "rejected"
  /\ call.cause = NetworkError
  /\ call.fetches = 1
  /\ call.timer = "cleared"

\* The layers of a resolution in the order given by their tags, highest
\* precedence first, and the value a key resolves to under that order: the
\* tag of the first layer that sets it.
RECURSIVE Reverse(_)
Reverse(seq) == IF seq = <<>> THEN <<>> ELSE Append(Reverse(Tail(seq)), Head(seq))

RECURSIVE FirstSetting(_, _)
FirstSetting(layers, h) ==
  IF layers = <<>>
    THEN "unset"
    ELSE IF Head(layers).headers[h] # "unset"
           THEN Head(layers).headers[h]
           ELSE FirstSetting(Tail(layers), h)

LayersOf(m) == {m.config, m.init} \cup {m.chain[i] : i \in DOMAIN m.chain}

\* C21: the effective headers have exactly the names some layer sets, a
\* header of the per-call config always carries the per-call value, and a
\* timeout only the instance config sets is kept.
C21_HeaderUnionCallWins ==
  merge.pc = "resolved" =>
    /\ \A h \in HeaderNames :
         /\ merge.result.headers[h] # "unset"
              <=> \E l \in LayersOf(merge) : l.headers[h] # "unset"
         /\ merge.init.headers[h] # "unset"
              => merge.result.headers[h] = merge.init.headers[h]
    /\ ( /\ merge.config.fields["timeout"] # "unset"
         /\ \A l \in LayersOf(merge) \ {merge.config} :
              l.fields["timeout"] = "unset" )
       => merge.result.fields["timeout"] = merge.config.fields["timeout"]

\* instance {A: '1', timeout}, chain {B: '2'}, call {A: '9'}
C21_Witness ==
  /\ impl = "undios"
  /\ merge.pc = "resolved"
  /\ merge.config = Layer("I", {"Content-Type"}, {"timeout"})
  /\ merge.chain = <<Layer("C1", {"content-type"}, {})>>
  /\ merge.init = Layer("O", {"Content-Type"}, {})
  /\ merge.result.headers["Content-Type"] = "O"
  /\ merge.result.headers["content-type"] = "C1"
  /\ merge.result.fields["timeout"] = "I"

\* C22, as claimed: a field other than headers that the instance config and
\* a chain layer both set, and the call does not, resolves to the instance
\* config's value.
C22_InstanceFieldBeatsChain ==
  \A f \in FieldNames :
    ( /\ merge.pc = "resolved"
      /\ merge.config.fields[f] # "unset"
      /\ \E i \in DOMAIN merge.chain : merge.chain[i].fields[f] # "unset"
      /\ merge.init.fields[f] = "unset" )
    => merge.result.fields[f] = merge.config.fields[f]

\* C23, as claimed: a field other than headers that the per-call config
\* sets resolves to the per-call value; one it does not set and a chain
\* layer does resolves to a chain layer's value.
C23_CallFieldWins ==
  \A f \in FieldNames :
    merge.pc = "resolved" =>
      /\ merge.init.fields[f] # "unset"
           => merge.result.fields[f] = merge.init.fields[f]
      /\ ( /\ merge.init.fields[f] = "unset"
           /\ \E i \in DOMAIN merge.chain : merge.chain[i].fields[f] # "unset" )
         => \E i \in DOMAIN merge.chain :
              /\ merge.chain[i].fields[f] # "unset"
              /\ merge.result.fields[f] = merge.chain[i].fields[f]

C25_ExtendLeavesParent ==
  /\ [](merge.child # NoLayer =>
          /\ \A h \in HeaderNames :
               merge.child.headers[h] =
                 IF merge.over.headers[h] # "unset"
                   THEN merge.over.headers[h]
                   ELSE merge.config.headers[h]
          /\ \A f \in FieldNames :
               merge.child.fields[f] =
                 IF merge.over.fields[f] # "unset"
                   THEN merge.over.fields[f]
                   ELSE merge.config.fields[f])
  /\ [][ /\ merge'.config = merge.config
         /\ (merge'.over # merge.over =>
               merge'.result = merge.result /\ merge'.pc = merge.pc) ]_vars
  /\ [](merge.pc = "resolved" => merge.result = ResolveConfig(merge).result)

C25_Witness ==
  /\ merge.pc = "resolved"
  /\ merge.config = Layer("I", HeaderNames, {"timeout"})
  /\ merge.over = Layer("X", {"Content-Type"}, {"timeout"})
  /\ merge.child.headers["Content-Type"] = "X"
  /\ merge.child.headers["content-type"] = "I"
  /\ merge.child.fields["timeout"] = "X"
  /\ merge.result.fields["timeout"] = "I"

\* C28: data that is an object and none of URLSearchParams, ArrayBuffer,
\* typed view, Blob, FormData is sent JSON-serialized, and Content-Type
\* application/json is added only when the effective headers hold no
\* content type under either spelling; any other data is sent as it is and
\* no Content-Type is added.
C28_RequestBodyEncoding ==
  (merge.pc = "built" /\ impl # "httpPkg") =>
    LET configured == \E h \in HeaderNames : merge.result.headers[h] # "unset"
        sent == merge.request.headers["content-type"]
    IN  IF merge.request.data = "object"
          THEN /\ merge.request.body = "json"
               /\ sent = IF configured THEN "config" ELSE "application/json"
          ELSE /\ merge.request.body = "same"
               /\ sent = IF configured THEN "config" ELSE "unset"

C28_Witness ==
  /\ impl = "coreA"
  /\ merge.pc = "built"
  /\ merge.request.data = "object"
  /\ merge.result.headers["Content-Type"] = "unset"
  /\ merge.result.headers["content-type"] = "O"
  /\ merge.request.headers["content-type"] = "config"
  /\ merge.request.body = "json"

\* C26: for a response the status check accepts, response.data is what
\* config.responseType yields when it is a function, what the decoder
\* registered for it yields when it is a tag, and otherwise the default
\* decoder's result: JSON for a Content-Type starting with
\* 'application/json', text for one starting with 'text/', and the raw
\* bytes for any other and for a response without the header.
C26_DecoderSelection ==
  ( /\ impl \in {"undios", "coreB"}
    /\ impl = "coreB" => call.cfg.form = "verb"
    /\ call.pc = "resolved" )
  => /\ ValidateStatus(call.cfg, call.resp.status)
     /\ call.resp.data =
          CASE call.cfg.responseType = "fn" -> "fn"
            [] call.cfg.responseType = "arraybuffer" -> "arraybuffer"
            [] call.cfg.responseType = "none" ->
                 CASE call.resp.type = "application/json; charset=utf-8" -> "json"
                   [] call.resp.type = "text/plain" -> "text"
                   [] call.resp.type \in {"image/png", "missing"} -> "arraybuffer"

C26_Witness ==
  /\ impl = "undios"
  /\ call.pc = "resolved"
  /\ call.cfg.responseType = "none"
  /\ call.resp.type = "application/json; charset=utf-8"
  /\ call.resp.data = "json"
  /\ call.resp.status = 302

\* C30, as claimed: a call whose URL does not parse against the effective
\* baseURL fails with 'Invalid URL: <input>'; the transport is not invoked
\* and no timeout timer is registered.
C30_InvalidURLFailsEarly ==
  (call.cfg.url = "invalid" /\ call.pc # "idle") =>
    /\ call.pc = "rejected"
    /\ call.err = InvalidURLError
    /\ call.fetches = 0
    /\ call.timer = "none"
    /\ ~call.effect

\* The registrations of a key still standing, by number.
Standing(kind, key) ==
  {registry.live[j].id : j \in {j \in DOMAIN registry.live :
     registry.live[j].kind = kind /\ key \in registry.live[j].keys}}

Highest(ids) == CHOOSE x \in ids : \A y \in ids : y <= x

\* C27, as claimed: a tag or scheme resolves in its registry exactly when
\* a registration for it has not been retracted, and then to the most
\* recent such registration.
C27_RegistryIsOverlay ==
  /\ \A t \in RegTags :
       IF Standing("decoder", t) = {}
         THEN registry.decoders[t] = 0
         ELSE registry.decoders[t] = Highest(Standing("decoder", t))
  /\ \A k \in RegSchemes :
       IF Standing("proxy", k) = {}
         THEN registry.proxies[k] = 0
         ELSE registry.proxies[k] = Highest(Standing("proxy", k))

\* The parameters resolveURL should add by the claim: the entries whose
\* value is neither null nor undefined, in insertion order.
Kept(entry) == ~IsNullable(entry[2])

\* C29, as claimed: the resolved URL's query is the query the URL came
\* with followed by one parameter for each entry of params whose value is
\* neither null nor undefined, in the insertion order of params.
C29_ParamsInInsertionOrder ==
  url.pc = "resolved" => url.out = url.query \o SelectSeq(url.params, Kept)

\* C31, as claimed: when the calling scope is disposed, every socket ws
\* returned that has not closed yet gets socket.close(1000, 'context
\* disposed') called on it.
C31_DisposalClosesOpenSockets ==
  [][(scope = "active" /\ scope' = "disposed") =>
       \A i \in DOMAIN sockets :
         sockets[i].state # "closed" =>
           /\ sockets'[i].cleanups = sockets[i].cleanups + 1
           /\ sockets'[i].code = NormalClosure]_vars

\* C32, as claimed (the implementations whose close listener calls the
\* hook's disposer): for every socket the cleanup socket.close(...,
\* 'context disposed') runs at most once, and never when the socket's close
\* event came before the scope was disposed.
C32_CleanupAtMostOnce ==
  impl \in ListenerImpls \cup {"coreB"} =>
    \A i \in DOMAIN sockets :
      /\ sockets[i].cleanups <= 1
      /\ sockets[i].closedWhile = "active" => sockets[i].cleanups = 0

\* The registration was disposed (by its disposer or with its scope)
\* before its delay had elapsed.
StoppedEarly(t) == t.stoppedAt # -1 /\ t.stoppedAt < t.delay

\* C33: the callback of ctx.setTimeout(cb, d) has been invoked exactly once
\* from the moment d has elapsed, however much time passes after, and not
\* at all before; when the disposer was called or the scope disposed before
\* d had elapsed, it is never invoked.
C33_TimeoutCallsOnce ==
  \A i \in DOMAIN timers :
    LET t == timers[i]
    IN  t.kind = "timeout" =>
          t.calls = IF t.elapsed >= t.delay /\ ~StoppedEarly(t) THEN 1 ELSE 0

\* A timeout fired and more time passed; another was disposed early and its
\* delay passed.
C33_Witness ==
  /\ \E i \in DOMAIN timers :
       /\ timers[i].kind = "timeout" /\ timers[i].calls = 1
       /\ timers[i].elapsed > timers[i].delay
  /\ \E i \in DOMAIN timers :
       /\ timers[i].kind = "timeout" /\ StoppedEarly(timers[i])
       /\ timers[i].elapsed > timers[i].delay /\ timers[i].calls = 0

\* The time a registration was active for.
ActiveTime(t) == IF t.stoppedAt = -1 THEN t.elapsed ELSE t.stoppedAt

\* C34: the callback of ctx.setInterval(cb, d) has been invoked once for
\* each period d that elapsed while the registration was active, and is
\* not invoked after the disposer was called or the scope disposed.
C34_IntervalCallsPerPeriod ==
  \A i \in DOMAIN timers :
    LET t == timers[i]
    IN  t.kind = "interval" => t.calls = ActiveTime(t) \div t.delay

\* An interval ran for two periods, was disposed, and a period passed.
C34_Witness ==
  \E i \in DOMAIN timers :
    /\ timers[i].kind = "interval" /\ timers[i].calls = 2
    /\ timers[i].stoppedAt # -1
    /\ timers[i].elapsed >= timers[i].stoppedAt + timers[i].delay

\* C35: the promise of ctx.sleep(d) is resolved when d elapsed before the
\* scope was disposed, rejected when the scope was disposed first, and
\* pending until then; what it settled as never changes (a disposal after
\* it resolved rejects nothing); once settled, neither its timer nor its
\* 'dispose' listener is registered.
C35_SleepSettlesOnce ==
  /\ [](\A i \in DOMAIN timers :
         LET t == timers[i]
         IN  t.kind = "sleep" =>
               /\ t.promise = CASE StoppedEarly(t) -> "rejected"
                                [] t.elapsed >= t.delay -> "resolved"
                                [] OTHER -> "pending"
               /\ t.promise # "pending" =>
                     t.timer # "pending" /\ t.listener # "set")
  /\ [][\A i \in DOMAIN timers :
          timers[i].promise \in {"resolved", "rejected"} =>
            timers'[i].promise = timers[i].promise]_vars

\* One sleep resolved and the scope was disposed after; another was
\* rejected by that disposal.
C35_Witness ==
  /\ scope = "disposed"
  /\ \E i \in DOMAIN timers :
       timers[i].promise = "resolved" /\ timers[i].stoppedAt < timers[i].elapsed
  /\ \E i \in DOMAIN timers : timers[i].promise = "rejected"

\* C36 (part_004's executor): the decoder responseType selects is invoked
\* only on a response that status validation accepted; on a response it
\* rejected only the content-type default decoder is invoked; and no call
\* invokes more than one decoder on its response.
C36_DecodeAfterValidation ==
  impl = "undios" =>
    /\ Len(call.reads) <= 1
    /\ \A i \in DOMAIN call.reads :
         IF ValidateStatus(call.cfg, call.resp.status)
           THEN call.reads[i] = SelectDecoder(call.cfg)
           ELSE call.reads[i] = "default"

\* A call with a custom decoder function got a status its validator
\* rejects and ended with the status error after the default decoder ran.
C36_Witness ==
  /\ impl = "undios"
  /\ call.pc = "rejected" /\ call.err = StatusError
  /\ call.cfg.responseType = "fn"
  /\ call.reads = <<"default">>

\* C37, as claimed (part_004's executor): a call whose responseType tag had a registered decoder
\* when the call started does not fail with 'Unknown responseType',
\* whatever happens to the registration while the call is in flight.
C37_RetractionInFlight ==
  (impl = "undios" /\ call.known /\ call.pc = "rejected") =>
    call.err # UnknownResponseType

\* C38, as claimed: a header an 'http/config' observer writes into the
\* object it is handed never reaches the instance config: resolving a
\* call's config under such an observer leaves the instance config as it
\* was (so no later call sees the header either).
C38_ObserverWritesStayLocal ==
  [][merge'.config = merge.config]_vars

\* C39, as claimed: a verb shortcut dispatches with its own method, and
\* patch, post and put with their positional data argument as body,
\* whatever keys the config argument has.
C39_ShortcutKeepsMethodAndData ==
  (front.pc = "sent" /\ front.via \in Verbs) =>
    /\ front.out.method = front.via
    /\ front.via \in DataVerbs => front.out.body = front.data

\* C40, as claimed: file called without a timeout option issues its
\* request with the timeout the instance config and the intercept layer
\* resolve to.
C40_FileKeepsLowerTimeout ==
  (front.pc = "sent" /\ front.via = "file" /\ front.options = "unset") =>
    front.out.timeout =
      Dispatched(ResolveKeys(front.config, front.layer, NoKeys)).timeout

====
